---- MODULE Spec2Model ----
(***************************************************************************)
(* Model of maxheap.py: the max-heap primitives over a Python list and the *)
(* generator merge() built on them.                                        *)
(*                                                                         *)
(* A Python list is a TLA+ sequence; the source's 0-based index i is the   *)
(* sequence's index i + 1 (Get / Set).  The element type _T of a heap is a *)
(* parameter T of every primitive: "int" for a heap of integers, "list"    *)
(* for merge's heap of records, which Python compares lexicographically.   *)
(***************************************************************************)
EXTENDS Integers, Sequences, FiniteSets, TLC

VARIABLES
    heap,       \* the list handed to the heap primitives
    old,        \* heap as it was before the last call
    op,         \* name of the last call ("new" before any call)
    item,       \* the last call's item argument, None when it has none
    ret,        \* the last call's return value, None when it raised / returns None
    err,        \* the exception the last call raised, "none" otherwise
    managed,    \* the list started empty or has been passed to heapify
    roundtrip,  \* since the last heapify only heappop was called: the list heapify
                \* was given and the values popped since
    iterables,  \* merge's inputs, in the order they were listed
    key,        \* merge's key argument
    h,          \* merge's list of records
    pos,        \* per input: number of elements its iterator has handed out
    out,        \* the elements merge has yielded so far
    src,        \* per yielded element: the order index of its input
    pc          \* where the generator is suspended

heapVars == <<heap, old, op, item, ret, err, managed, roundtrip>>
mergeVars == <<iterables, key, h, pos, out, src, pc>>
vars == <<heap, old, op, item, ret, err, managed, roundtrip, iterables, key, h, pos, out, src, pc>>

--------------------------------------------------------------------------
(* Bounds *)

MaxLen == 4         \* longest list handed to the heap primitives
MaxVal == 1         \* items are drawn from -1 .. MaxVal

Items == -1 .. MaxVal

MaxSources == 3     \* most inputs handed to merge
MaxTotal == 4       \* most elements in merge's inputs taken together

RECURSIVE BSeq(_, _)
BSeq(S, n) == IF n = 0 THEN {<<>>} ELSE BSeq(S, n - 1) \cup [1 .. n -> S]

--------------------------------------------------------------------------
(* Python values *)

None == <<>>
Some(v) == <<v>>

Get(lst, i) == lst[i + 1]
Set(lst, i, v) == [lst EXCEPT ![i + 1] = v]

Min(S) == CHOOSE x \in S : \A y \in S : x <= y

\* a comparison of records that looks at the first field only
list_lt_first(a, b) == a[1] < b[1]

\* list.__lt__: the first index where the lists differ decides; a proper prefix is smaller
list_lt(a, b) ==
    LET n == IF Len(a) < Len(b) THEN Len(a) ELSE Len(b)
        diff == {i \in 1 .. n : a[i] # b[i]}
    IN  IF diff = {} THEN Len(a) < Len(b) ELSE a[Min(diff)] < b[Min(diff)]

\* a < b on elements of type T
lt(T, a, b) == IF T = "int" THEN a < b ELSE list_lt(a, b)

\* a > b on elements of type T
gt(T, a, b) == IF T = "int" THEN a > b ELSE list_lt(b, a)

\* what a call hands back: the list afterwards, the returned value, the exception
Res(lst, r, e) == [heap |-> lst, ret |-> r, err |-> e]

--------------------------------------------------------------------------
(* _siftup and _siftdown *)

RECURSIVE siftup_loop(_, _, _, _)
siftup_loop(T, lst, cur_item, p) ==
    IF p > 0
    THEN LET parent_pos == (p - 1) \div 2
         IN  IF gt(T, cur_item, Get(lst, parent_pos))
             THEN siftup_loop(T, Set(lst, p, Get(lst, parent_pos)), cur_item, parent_pos)
             ELSE Set(lst, p, cur_item)
    ELSE Set(lst, p, cur_item)

_siftup(T, lst, p) == siftup_loop(T, lst, Get(lst, p), p)

\* _siftdown that never looks at the right child
RECURSIVE siftdown_loop_left(_, _, _, _, _)
siftdown_loop_left(T, lst, cur_item, p, child_pos) ==
    IF child_pos < Len(lst)
    THEN IF lt(T, cur_item, Get(lst, child_pos))
         THEN siftdown_loop_left(T, Set(lst, p, Get(lst, child_pos)), cur_item,
                                 child_pos, 2 * child_pos + 1)
         ELSE Set(lst, p, cur_item)
    ELSE Set(lst, p, cur_item)

\* _siftdown that moves a child up when the held item is greater than it
RECURSIVE siftdown_loop_gt(_, _, _, _, _)
siftdown_loop_gt(T, lst, cur_item, p, child_pos) ==
    IF child_pos < Len(lst)
    THEN LET right_pos == child_pos + 1
             child == IF right_pos < Len(lst) /\ lt(T, Get(lst, child_pos), Get(lst, right_pos))
                      THEN right_pos
                      ELSE child_pos
         IN  IF gt(T, cur_item, Get(lst, child))
             THEN siftdown_loop_gt(T, Set(lst, p, Get(lst, child)), cur_item, child, 2 * child + 1)
             ELSE Set(lst, p, cur_item)
    ELSE Set(lst, p, cur_item)

RECURSIVE siftdown_loop(_, _, _, _, _)
siftdown_loop(T, lst, cur_item, p, child_pos) ==
    IF child_pos < Len(lst)
    THEN LET right_pos == child_pos + 1
             child == IF right_pos < Len(lst) /\ lt(T, Get(lst, child_pos), Get(lst, right_pos))
                      THEN right_pos
                      ELSE child_pos
         IN  IF lt(T, cur_item, Get(lst, child))
             THEN siftdown_loop(T, Set(lst, p, Get(lst, child)), cur_item, child, 2 * child + 1)
             ELSE Set(lst, p, cur_item)
    ELSE Set(lst, p, cur_item)

_siftdown(T, lst, p) == siftdown_loop(T, lst, Get(lst, p), p, 2 * p + 1)

--------------------------------------------------------------------------
(* The heap primitives *)

\* heappush that appends and does not sift up
heappush_nosift(T, lst, it) == Append(lst, it)

heappush(T, lst, it) == _siftup(T, Append(lst, it), Len(lst))

\* heappop that always returns the element it took off the end
heappop_lastelt(T, lst) ==
    IF Len(lst) = 0
    THEN Res(lst, None, "IndexError")
    ELSE LET lastelt == lst[Len(lst)]
             rest == SubSeq(lst, 1, Len(lst) - 1)
         IN  IF Len(rest) > 0
             THEN Res(_siftdown(T, Set(rest, 0, lastelt), 0), Some(lastelt), "none")
             ELSE Res(rest, Some(lastelt), "none")

\* heappop that guards the empty list and returns None instead of raising
heappop_guarded(T, lst) ==
    IF Len(lst) = 0
    THEN Res(lst, None, "none")
    ELSE LET lastelt == lst[Len(lst)]
             rest == SubSeq(lst, 1, Len(lst) - 1)
         IN  IF Len(rest) > 0
             THEN Res(_siftdown(T, Set(rest, 0, lastelt), 0), Some(Get(rest, 0)), "none")
             ELSE Res(rest, Some(lastelt), "none")

\* heappop that only takes the last element off
heappop_tail(T, lst) ==
    IF Len(lst) = 0
    THEN Res(lst, None, "IndexError")
    ELSE Res(SubSeq(lst, 1, Len(lst) - 1), Some(lst[Len(lst)]), "none")

\* heappop that moves the last element to the root and does not sift it down
heappop_nosift(T, lst) ==
    IF Len(lst) = 0
    THEN Res(lst, None, "IndexError")
    ELSE LET lastelt == lst[Len(lst)]
             rest == SubSeq(lst, 1, Len(lst) - 1)
         IN  IF Len(rest) > 0
             THEN Res(Set(rest, 0, lastelt), Some(Get(rest, 0)), "none")
             ELSE Res(rest, Some(lastelt), "none")

heappop(T, lst) ==
    IF Len(lst) = 0
    THEN Res(lst, None, "IndexError")
    ELSE LET lastelt == lst[Len(lst)]
             rest == SubSeq(lst, 1, Len(lst) - 1)
         IN  IF Len(rest) > 0
             THEN Res(_siftdown(T, Set(rest, 0, lastelt), 0), Some(Get(rest, 0)), "none")
             ELSE Res(rest, Some(lastelt), "none")

\* heapreplace that reads the root only after the sift
heapreplace_late(T, lst, it) ==
    IF Len(lst) = 0
    THEN Res(lst, None, "IndexError")
    ELSE Res(_siftdown(T, Set(lst, 0, it), 0), Some(Get(_siftdown(T, Set(lst, 0, it), 0), 0)), "none")

\* heapreplace that stores item at the root and does not sift it down
heapreplace_nosift(T, lst, it) ==
    IF Len(lst) = 0
    THEN Res(lst, None, "IndexError")
    ELSE Res(Set(lst, 0, it), Some(Get(lst, 0)), "none")

heapreplace(T, lst, it) ==
    IF Len(lst) = 0
    THEN Res(lst, None, "IndexError")
    ELSE Res(_siftdown(T, Set(lst, 0, it), 0), Some(Get(lst, 0)), "none")

\* heappushpop with the comparison the wrong way round
heappushpop_lt(T, lst, it) ==
    IF Len(lst) > 0 /\ lt(T, Get(lst, 0), it)
    THEN Res(_siftdown(T, Set(lst, 0, it), 0), Some(Get(lst, 0)), "none")
    ELSE Res(lst, Some(it), "none")

\* heappushpop without the fast path: a heappush followed by a heappop
heappushpop_slow(T, lst, it) == heappop(T, heappush(T, lst, it))

heappushpop(T, lst, it) ==
    IF Len(lst) > 0 /\ gt(T, Get(lst, 0), it)
    THEN Res(_siftdown(T, Set(lst, 0, it), 0), Some(Get(lst, 0)), "none")
    ELSE Res(lst, Some(it), "none")

\* for i in reversed(range(n//2)): _siftdown(array, i); i counts down from n//2 - 1
RECURSIVE heapify_loop(_, _, _)
heapify_loop(T, array, i) ==
    IF i < 0 THEN array ELSE heapify_loop(T, _siftdown(T, array, i), i - 1)

\* heapify that starts one parent too low
heapify_short(T, array) == heapify_loop(T, array, (Len(array) \div 2) - 2)

heapify(T, array) == heapify_loop(T, array, (Len(array) \div 2) - 1)

--------------------------------------------------------------------------
(* Calls on a list of integers *)

NoRoundTrip == [on |-> FALSE, orig |-> <<>>, popped |-> <<>>]

NoMerge ==
    /\ iterables = <<>>
    /\ key = "None"
    /\ h = <<>>
    /\ pos = <<>>
    /\ out = <<>>
    /\ src = <<>>
    /\ pc = "none"

Init ==
    /\ heap \in BSeq(Items, MaxLen)
    /\ old = heap
    /\ op = "new"
    /\ item = None
    /\ ret = None
    /\ err = "none"
    /\ managed = (heap = <<>>)
    /\ roundtrip = NoRoundTrip
    /\ NoMerge

\* the calls heapify(orig); heappop(orig); heappop(orig); ... as seen so far
RoundTrip(name, r) ==
    IF name = "heapify"
    THEN [on |-> TRUE, orig |-> heap, popped |-> <<>>]
    ELSE IF roundtrip.on /\ name = "heappop"
         THEN IF r.err = "none"
              THEN [roundtrip EXCEPT !.popped = Append(@, r.ret[1])]
              ELSE roundtrip
         ELSE NoRoundTrip

Called(name, arg, r) ==
    /\ heap' = r.heap
    /\ roundtrip' = RoundTrip(name, r)
    /\ old' = heap
    /\ op' = name
    /\ item' = arg
    /\ ret' = r.ret
    /\ err' = r.err
    /\ UNCHANGED mergeVars

Heapify ==
    /\ Called("heapify", None, Res(heapify("int", heap), None, "none"))
    /\ managed' = TRUE

Push ==
    \E it \in Items :
        /\ Len(heap) < MaxLen
        /\ Called("heappush", Some(it), Res(heappush("int", heap, it), None, "none"))
        /\ UNCHANGED managed

Pop ==
    /\ Called("heappop", None, heappop("int", heap))
    /\ UNCHANGED managed

Replace ==
    \E it \in Items :
        /\ Called("heapreplace", Some(it), heapreplace("int", heap, it))
        /\ UNCHANGED managed

PushPop ==
    \E it \in Items :
        /\ Called("heappushpop", Some(it), heappushpop("int", heap, it))
        /\ UNCHANGED managed

Next == Heapify \/ Push \/ Pop \/ Replace \/ PushPop

Spec == Init /\ [][Next]_vars

--------------------------------------------------------------------------
(* merge: its inputs *)

\* the key arguments tried: no key, the identity, and a key under which
\* different elements tie (floor of x / 2)
Keys == {"None", "identity", "half"}

key_of(k, value) == IF k = "half" THEN value \div 2 ELSE value

RECURSIVE SumTo(_, _)
SumTo(lens, n) == IF n = 0 THEN 0 ELSE lens[n] + SumTo(lens, n - 1)

\* the lengths of the inputs: up to MaxSources inputs holding up to MaxTotal elements
Lengths ==
    {lens \in UNION {[1 .. n -> 0 .. MaxTotal] : n \in 0 .. MaxSources} :
        SumTo(lens, Len(lens)) <= MaxTotal}

\* the inputs of the given lengths whose elements, one after another, are flat
Split(flat, lens) ==
    [i \in 1 .. Len(lens) |-> SubSeq(flat, SumTo(lens, i - 1) + 1, SumTo(lens, i))]

NoHeapCall ==
    /\ heap = <<>>
    /\ old = <<>>
    /\ op = "new"
    /\ item = None
    /\ ret = None
    /\ err = "none"
    /\ managed = TRUE
    /\ roundtrip = NoRoundTrip

\* merge(*iterables, key=key) has been called; nothing has been asked of it yet
InitMerge ==
    /\ \E lens \in Lengths : \E flat \in [1 .. SumTo(lens, Len(lens)) -> Items] :
           iterables = Split(flat, lens)
    /\ key \in Keys
    /\ h = <<>>
    /\ pos = [i \in DOMAIN iterables |-> 0]
    /\ out = <<>>
    /\ src = <<>>
    /\ pc = "created"
    /\ NoHeapCall

--------------------------------------------------------------------------
(* merge: the generator, one action per resumption *)

\* a record is [value, order, next] without a key and [key(value), order,
\* value, next] with one; next is the index in pos of the record's iterator

\* every iterator drained up front
first_pulls_all == [i \in DOMAIN iterables |-> Len(iterables[i])]

\* after next() was called once on every iterator
first_pulls == [i \in DOMAIN iterables |-> IF iterables[i] # <<>> THEN 1 ELSE 0]

\* the for loop leaving at the first exhausted iterator (break for pass)
RECURSIVE setup_nokey_break(_, _, _)
setup_nokey_break(its, i, hh) ==
    IF i > Len(its) \/ its[i] = <<>>
    THEN hh
    ELSE setup_nokey_break(its, i + 1, heapify("list", Append(hh, <<its[i][1], i - 1, i>>)))

\* lines 182-188: h once the for loop has handled the iterables from index i on
RECURSIVE setup_nokey(_, _, _)
setup_nokey(its, i, hh) ==
    IF i > Len(its)
    THEN hh
    ELSE setup_nokey(its, i + 1,
                     heapify("list", IF its[i] # <<>>
                                     THEN Append(hh, <<its[i][1], i - 1, i>>)
                                     ELSE hh))

\* setup_key with the order negated, so that the earlier iterable wins a tie
RECURSIVE setup_key_neg(_, _, _, _)
setup_key_neg(k, its, i, hh) ==
    IF i > Len(its)
    THEN hh
    ELSE setup_key_neg(k, its, i + 1,
                       IF its[i] # <<>>
                       THEN Append(hh, <<key_of(k, its[i][1]), 1 - i, its[i][1], i>>)
                       ELSE hh)

\* lines 208-214
RECURSIVE setup_key(_, _, _, _)
setup_key(k, its, i, hh) ==
    IF i > Len(its)
    THEN hh
    ELSE setup_key(k, its, i + 1,
                   IF its[i] # <<>>
                   THEN Append(hh, <<key_of(k, its[i][1]), i - 1, its[i][1], i>>)
                   ELSE hh)

Yield(value, order) ==
    /\ out' = Append(out, value)
    /\ src' = Append(src, order)

\* RunNoKey without the single-iterator tail
RunNoKey_notail(hh) ==
    /\ h' = hh
    /\ IF Len(hh) > 1
       THEN Yield(Get(hh, 0)[1], Get(hh, 0)[2]) /\ pc' = "L193"
       ELSE UNCHANGED <<out, src>> /\ pc' = "done"

\* lines 189-207 from the test of `while len(h) > 1` to the next yield or the return
RunNoKey(hh) ==
    /\ h' = hh
    /\ IF Len(hh) > 1
       THEN Yield(Get(hh, 0)[1], Get(hh, 0)[2]) /\ pc' = "L193"
       ELSE IF Len(hh) > 0
            THEN Yield(Get(hh, 0)[1], Get(hh, 0)[2]) /\ pc' = "L202"
            ELSE UNCHANGED <<out, src>> /\ pc' = "done"

\* RunKey that yields the record's key where the element is meant
RunKey_key(hh) ==
    /\ h' = hh
    /\ IF Len(hh) > 1
       THEN Yield(Get(hh, 0)[1], Get(hh, 0)[2]) /\ pc' = "L220"
       ELSE IF Len(hh) > 0
            THEN Yield(Get(hh, 0)[1], Get(hh, 0)[2]) /\ pc' = "L230"
            ELSE UNCHANGED <<out, src>> /\ pc' = "done"

\* lines 216-234 likewise
RunKey(hh) ==
    /\ h' = hh
    /\ IF Len(hh) > 1
       THEN Yield(Get(hh, 0)[3], Get(hh, 0)[2]) /\ pc' = "L220"
       ELSE IF Len(hh) > 0
            THEN Yield(Get(hh, 0)[3], Get(hh, 0)[2]) /\ pc' = "L230"
            ELSE UNCHANGED <<out, src>> /\ pc' = "done"

\* the first next() on the generator, key is None: lines 180-188, then on to a yield
StartNoKey ==
    /\ pc = "created"
    /\ key = "None"
    /\ pos' = first_pulls
    /\ RunNoKey(setup_nokey(iterables, 1, <<>>))
    /\ UNCHANGED <<iterables, key, heapVars>>

\* the first next() on the generator, with a key: lines 180, 208-215, then on to a yield
StartKey ==
    /\ pc = "created"
    /\ key # "None"
    /\ pos' = first_pulls
    /\ RunKey(heapify("list", setup_key(key, iterables, 1, <<>>)))
    /\ UNCHANGED <<iterables, key, heapVars>>

\* resumed at the yield of line 193
Resume193 ==
    /\ pc = "L193"
    /\ LET s == Get(h, 0)
           i == s[3]
       IN  IF pos[i] < Len(iterables[i])
           THEN LET s2 == [s EXCEPT ![1] = iterables[i][pos[i] + 1]]
                    hh == heapreplace("list", Set(h, 0, s2), s2).heap
                IN  /\ pos' = [pos EXCEPT ![i] = @ + 1]
                    /\ h' = hh
                    /\ Yield(Get(hh, 0)[1], Get(hh, 0)[2])
                    /\ pc' = "L193"
           ELSE /\ UNCHANGED pos
                /\ RunNoKey(heappop("list", h).heap)
    /\ UNCHANGED <<iterables, key, heapVars>>

\* resumed at a yield of the single-iterator tail, key is None
TailNoKey(from) ==
    /\ pc = from
    /\ LET i == Get(h, 0)[3]
       IN  IF pos[i] < Len(iterables[i])
           THEN /\ pos' = [pos EXCEPT ![i] = @ + 1]
                /\ Yield(iterables[i][pos[i] + 1], Get(h, 0)[2])
                /\ pc' = "L204"
           ELSE /\ UNCHANGED <<pos, out, src>>
                /\ pc' = "done"
    /\ UNCHANGED <<iterables, key, h, heapVars>>

\* resumed at the yield of line 202
Resume202 == TailNoKey("L202")

\* resumed at the yield of line 204
Resume204 == TailNoKey("L204")

\* line 223 left out: the record keeps the element it had
Resume220_stale ==
    /\ pc = "L220"
    /\ LET s == Get(h, 0)
           i == s[4]
       IN  IF pos[i] < Len(iterables[i])
           THEN LET value == iterables[i][pos[i] + 1]
                    s2 == [s EXCEPT ![1] = key_of(key, value)]
                    hh == heapreplace("list", Set(h, 0, s2), s2).heap
                IN  /\ pos' = [pos EXCEPT ![i] = @ + 1]
                    /\ h' = hh
                    /\ Yield(Get(hh, 0)[3], Get(hh, 0)[2])
                    /\ pc' = "L220"
           ELSE /\ UNCHANGED pos
                /\ RunKey(heappop("list", h).heap)
    /\ UNCHANGED <<iterables, key, heapVars>>

\* resumed at the yield of line 220
Resume220 ==
    /\ pc = "L220"
    /\ LET s == Get(h, 0)
           i == s[4]
       IN  IF pos[i] < Len(iterables[i])
           THEN LET value == iterables[i][pos[i] + 1]
                    s2 == [s EXCEPT ![1] = key_of(key, value), ![3] = value]
                    hh == heapreplace("list", Set(h, 0, s2), s2).heap
                IN  /\ pos' = [pos EXCEPT ![i] = @ + 1]
                    /\ h' = hh
                    /\ Yield(Get(hh, 0)[3], Get(hh, 0)[2])
                    /\ pc' = "L220"
           ELSE /\ UNCHANGED pos
                /\ RunKey(heappop("list", h).heap)
    /\ UNCHANGED <<iterables, key, heapVars>>

\* the tail applying key to what it yields
TailKey_key(from) ==
    /\ pc = from
    /\ LET i == Get(h, 0)[4]
       IN  IF pos[i] < Len(iterables[i])
           THEN /\ pos' = [pos EXCEPT ![i] = @ + 1]
                /\ Yield(key_of(key, iterables[i][pos[i] + 1]), Get(h, 0)[2])
                /\ pc' = "L232"
           ELSE /\ UNCHANGED <<pos, out, src>>
                /\ pc' = "done"
    /\ UNCHANGED <<iterables, key, h, heapVars>>

\* resumed at a yield of the single-iterator tail, with a key
TailKey(from) ==
    /\ pc = from
    /\ LET i == Get(h, 0)[4]
       IN  IF pos[i] < Len(iterables[i])
           THEN /\ pos' = [pos EXCEPT ![i] = @ + 1]
                /\ Yield(iterables[i][pos[i] + 1], Get(h, 0)[2])
                /\ pc' = "L232"
           ELSE /\ UNCHANGED <<pos, out, src>>
                /\ pc' = "done"
    /\ UNCHANGED <<iterables, key, h, heapVars>>

\* resumed at the yield of line 230
Resume230 == TailKey("L230")

\* resumed at the yield of line 232
Resume232 == TailKey("L232")

NextMerge ==
    \/ StartNoKey
    \/ StartKey
    \/ Resume193
    \/ Resume202
    \/ Resume204
    \/ Resume220
    \/ Resume230
    \/ Resume232

SpecMerge == InitMerge /\ [][NextMerge]_vars

--------------------------------------------------------------------------
(* merge as a function of its arguments: what the generator called on its   *)
(* with key k holds after a number of resumptions.  g is the generator's    *)
(* local state; its pc is "created", "multi" (suspended in the loop over    *)
(* several records), "tail" (suspended in the single-iterator tail) or      *)
(* "done".                                                                  *)

gen_created(its) ==
    [h |-> <<>>, pos |-> [i \in DOMAIN its |-> 0], out |-> <<>>, pc |-> "created"]

\* where a record keeps its element and its iterator
value_at(k) == IF k = "None" THEN 1 ELSE 3
next_at(k) == IF k = "None" THEN 3 ELSE 4

\* lines 180-188 / 208-215: the records of the non-empty inputs, heapified
gen_setup(its, k) ==
    IF k = "None"
    THEN setup_nokey(its, 1, <<>>)
    ELSE heapify("list", setup_key(k, its, 1, <<>>))

\* lines 189-207 / 216-234 from the test of `while len(h) > 1` on
gen_loops(k, g, hh, pp) ==
    IF Len(hh) > 0
    THEN [h |-> hh, pos |-> pp, out |-> Append(g.out, Get(hh, 0)[value_at(k)]),
          pc |-> IF Len(hh) > 1 THEN "multi" ELSE "tail"]
    ELSE [h |-> hh, pos |-> pp, out |-> g.out, pc |-> "done"]

\* one next() on the generator
gen_next(its, k, g) ==
    IF g.pc = "created"
    THEN gen_loops(k, g, gen_setup(its, k),
                   [i \in DOMAIN its |-> IF its[i] # <<>> THEN 1 ELSE 0])
    ELSE IF g.pc = "multi"
    THEN LET s == Get(g.h, 0)
             i == s[next_at(k)]
         IN  IF g.pos[i] < Len(its[i])
             THEN LET value == its[i][g.pos[i] + 1]
                      s2 == IF k = "None"
                            THEN [s EXCEPT ![1] = value]
                            ELSE [s EXCEPT ![1] = key_of(k, value), ![3] = value]
                      hh == heapreplace("list", Set(g.h, 0, s2), s2).heap
                  IN  [h |-> hh, pos |-> [g.pos EXCEPT ![i] = @ + 1],
                       out |-> Append(g.out, Get(hh, 0)[value_at(k)]), pc |-> "multi"]
             ELSE gen_loops(k, g, heappop("list", g.h).heap, g.pos)
    ELSE IF g.pc = "tail"
    THEN LET i == Get(g.h, 0)[next_at(k)]
         IN  IF g.pos[i] < Len(its[i])
             THEN [g EXCEPT !.pos[i] = @ + 1, !.out = Append(@, its[i][g.pos[i] + 1])]
             ELSE [g EXCEPT !.pc = "done"]
    ELSE g

\* the generator after n resumptions
RECURSIVE gen_run(_, _, _)
gen_run(its, k, n) == IF n = 0 THEN gen_created(its) ELSE gen_next(its, k, gen_run(its, k, n - 1))

--------------------------------------------------------------------------
(* Properties of the heap primitives *)

\* the max-heap invariant: a[k] >= a[2k+1] and a[k] >= a[2k+2] wherever those exist
IsMaxHeap(lst) ==
    \A k \in 0 .. Len(lst) - 1 :
        /\ (2 * k + 1 < Len(lst) => Get(lst, k) >= Get(lst, 2 * k + 1))
        /\ (2 * k + 2 < Len(lst) => Get(lst, k) >= Get(lst, 2 * k + 2))

Range(lst) == {lst[i] : i \in DOMAIN lst}
Max(S) == CHOOSE x \in S : \A y \in S : x >= y
Count(lst, v) == Cardinality({i \in DOMAIN lst : lst[i] = v})
Occ(opt, v) == IF opt # None /\ opt[1] = v THEN 1 ELSE 0
SameBag(a, b) == \A v \in Range(a) \cup Range(b) : Count(a, v) = Count(b, v)
\* b holds a's elements with one `removed` taken out and one `added` put in
BagStep(a, b, removed, added) ==
    \A v \in Range(a) \cup Range(b) \cup Range(removed) \cup Range(added) :
        Count(b, v) = Count(a, v) - Occ(removed, v) + Occ(added, v)
HasDuplicates(lst) == \E i, j \in DOMAIN lst : i # j /\ lst[i] = lst[j]

\* C1: a list that started empty or was heapified satisfies the max-heap
\* invariant after every sequence of heappush, heappop, heapreplace and
\* heappushpop calls, and its root is its maximum whenever it is non-empty.
C1_HeapInvariant ==
    managed =>
        /\ IsMaxHeap(heap)
        /\ (heap # <<>> => Get(heap, 0) = Max(Range(heap)))

C1_Witness ==
    /\ managed
    /\ op \in {"heappop", "heapreplace", "heappushpop"}
    /\ Len(heap) >= 3
    /\ HasDuplicates(heap)
    /\ heap # old

\* C2: after heapify the list satisfies the max-heap invariant and is a
\* permutation of what it was (same length, same multiset); an empty list
\* stays empty.
C2_Heapify ==
    op = "heapify" =>
        /\ IsMaxHeap(heap)
        /\ Len(heap) = Len(old)
        /\ SameBag(heap, old)
        /\ (old = <<>> => heap = <<>>)

C2_Witness ==
    /\ op = "heapify"
    /\ ~IsMaxHeap(old)
    /\ Len(old) >= 4
    /\ HasDuplicates(old)
    /\ \E i \in DOMAIN old : old[i] < 0

\* C3: heappop on a non-empty max-heap returns its maximum, shortens it by
\* one and leaves the original multiset minus one occurrence of the returned
\* value; a single element is returned and the list becomes empty.
C3_Heappop ==
    (op = "heappop" /\ old # <<>> /\ IsMaxHeap(old)) =>
        /\ err = "none"
        /\ ret = Some(Max(Range(old)))
        /\ Len(heap) = Len(old) - 1
        /\ BagStep(old, heap, ret, None)
        /\ (Len(old) = 1 => ret = Some(old[1]) /\ heap = <<>>)

C3_Witness ==
    /\ op = "heappop"
    /\ IsMaxHeap(old)
    /\ Len(old) >= 3
    /\ ret # Some(old[Len(old)])
    /\ heap # SubSeq(old, 2, Len(old))

\* C7: on a valid max-heap heappushpop returns the same value as heappush
\* followed by heappop, that value is the maximum of the heap's elements and
\* item, and both leave a valid max-heap holding the same multiset.
C7_PushPopEquivalence ==
    (op = "heappushpop" /\ IsMaxHeap(old)) =>
        LET two == heappop("int", heappush("int", old, item[1]))
        IN  /\ ret = two.ret
            /\ err = two.err
            /\ ret = Some(Max(Range(old) \cup {item[1]}))
            /\ IsMaxHeap(heap)
            /\ IsMaxHeap(two.heap)
            /\ SameBag(heap, two.heap)

\* the two routes agree on the value and the multiset but not on the arrangement
C7_Witness ==
    /\ op = "heappushpop"
    /\ IsMaxHeap(old)
    /\ ret # item
    /\ heap # heappop("int", heappush("int", old, item[1])).heap

\* C8: heappop and heapreplace on an empty list raise IndexError, return
\* nothing, and leave the list empty.
C8_EmptyRaises ==
    (op \in {"heappop", "heapreplace"} /\ old = <<>>) =>
        /\ err = "IndexError"
        /\ ret = None
        /\ heap = <<>>

C8_Witness ==
    /\ op = "heapreplace"
    /\ old = <<>>
    /\ item # None
    /\ err = "IndexError"
    /\ heap = <<>>

\* C9: heappushpop returns item and leaves the list as it was when the list
\* is empty or its root is <= item; otherwise it returns the former root and
\* stores item in the list.
C9_PushPopFrame ==
    op = "heappushpop" =>
        IF old = <<>> \/ Get(old, 0) <= item[1]
        THEN ret = item /\ heap = old /\ err = "none"
        ELSE /\ ret = Some(Get(old, 0))
             /\ err = "none"
             /\ Len(heap) = Len(old)
             /\ BagStep(old, heap, ret, item)

C9_Witness ==
    /\ op = "heappushpop"
    /\ Len(old) >= 2
    /\ Get(old, 0) <= item[1]
    /\ ret = item
    /\ heap = old

\* C10: heapreplace on a non-empty max-heap returns the maximum the heap had
\* before the call, whatever item is, keeps the length, and leaves the
\* original multiset with one occurrence of the returned value replaced by item.
C10_Heapreplace ==
    (op = "heapreplace" /\ old # <<>> /\ IsMaxHeap(old)) =>
        /\ err = "none"
        /\ ret = Some(Max(Range(old)))
        /\ Len(heap) = Len(old)
        /\ BagStep(old, heap, ret, item)

C10_Witness ==
    /\ op = "heapreplace"
    /\ IsMaxHeap(old)
    /\ Len(old) >= 3
    /\ ret[1] < item[1]
    /\ Get(heap, 0) # ret[1]

\* C11: heappush on a valid max-heap grows the list by one, adds item to the
\* multiset, and makes the root the larger of the old root and item; an item
\* greater than every element of a non-empty heap becomes the root.
C11_Heappush ==
    (op = "heappush" /\ IsMaxHeap(old)) =>
        /\ err = "none"
        /\ Len(heap) = Len(old) + 1
        /\ BagStep(old, heap, None, item)
        /\ Get(heap, 0) = Max(Range(old) \cup {item[1]})
        /\ Get(heap, 0) = (IF old # <<>> /\ Get(old, 0) > item[1] THEN Get(old, 0) ELSE item[1])

C11_Witness ==
    /\ op = "heappush"
    /\ IsMaxHeap(old)
    /\ Len(old) >= 3
    /\ \A i \in DOMAIN old : item[1] > old[i]
    /\ Get(heap, 0) = item[1]

NonIncreasing(seq) == \A n \in 1 .. Len(seq) - 1 : seq[n] >= seq[n + 1]

\* C12: after heapify, repeated heappop yields values in non-increasing order,
\* and once the list is empty the popped values are exactly the elements of
\* the list heapify was given, one pop per element.
C12_RoundTrip ==
    roundtrip.on =>
        /\ NonIncreasing(roundtrip.popped)
        /\ SameBag(roundtrip.popped \o heap, roundtrip.orig)
        /\ Len(roundtrip.popped) + Len(heap) = Len(roundtrip.orig)
        /\ (heap = <<>> => /\ Len(roundtrip.popped) = Len(roundtrip.orig)
                           /\ SameBag(roundtrip.popped, roundtrip.orig))

C12_Witness ==
    /\ roundtrip.on
    /\ heap = <<>>
    /\ Len(roundtrip.orig) >= 4
    /\ roundtrip.popped # roundtrip.orig
    /\ HasDuplicates(roundtrip.orig)
    /\ \E n \in 1 .. Len(roundtrip.orig) - 1 : roundtrip.orig[n] < roundtrip.orig[n + 1]
    /\ roundtrip.popped[1] > roundtrip.popped[Len(roundtrip.popped)]

\* C13: heapify on a list that already satisfies the max-heap invariant
\* leaves every index holding the same element; in particular a second
\* heapify changes nothing.
C13_HeapifyIdempotent ==
    (op = "heapify" /\ IsMaxHeap(old)) => heap = old

C13_Witness ==
    /\ op = "heapify"
    /\ IsMaxHeap(old)
    /\ Len(old) >= 4
    /\ HasDuplicates(old)
    /\ old[1] > old[Len(old)]
    /\ heap = old

--------------------------------------------------------------------------
(* Properties of merge *)

\* what merge orders an element by
sort_key(value) == IF key = "None" THEN value ELSE key_of(key, value)

Descending(seq) == \A n \in 1 .. Len(seq) - 1 : sort_key(seq[n]) >= sort_key(seq[n + 1])

InputsSorted == \A i \in DOMAIN iterables : Descending(iterables[i])

NonEmptyInputs == {i \in DOMAIN iterables : iterables[i] # <<>>}

RECURSIVE Flatten(_, _)
Flatten(its, n) == IF n = 0 THEN <<>> ELSE Flatten(its, n - 1) \o its[n]

\* the output goes back to an input it had left for another one
Interleaved == \E a, b, c \in DOMAIN src : a < b /\ b < c /\ src[a] = src[c] /\ src[a] # src[b]

\* C4: over inputs that are each descending (by key when a key is given, by
\* value otherwise) every two consecutively emitted elements a, b satisfy
\* key(a) >= key(b).
C4_MergeDescending == InputsSorted => Descending(out)

C4_Witness ==
    /\ pc = "done"
    /\ InputsSorted
    /\ key = "half"
    /\ Len(out) >= 4
    /\ Interleaved
    /\ \E n \in 1 .. Len(out) - 1 : out[n] < out[n + 1]

\* C5: iterated to exhaustion, merge has emitted every element of every input
\* exactly once and nothing else (the elements, not their keys), as many as
\* the inputs hold together, and every iterator has handed out all it had.
C5_MergeComplete ==
    pc = "done" =>
        /\ Len(out) = Len(Flatten(iterables, Len(iterables)))
        /\ SameBag(out, Flatten(iterables, Len(iterables)))
        /\ \A i \in DOMAIN iterables : pos[i] = Len(iterables[i])

C5_Witness ==
    /\ pc = "done"
    /\ key = "half"
    /\ Len(out) >= 4
    /\ Cardinality(NonEmptyInputs) >= 2
    /\ ~InputsSorted
    /\ \E n \in DOMAIN out : key_of(key, out[n]) # out[n]

\* the records of h other than h[0] whose key (value, without a key) equals h[0]'s
TiedWithRoot == {j \in 1 .. Len(h) - 1 : Get(h, j)[1] = Get(h, 0)[1]}

\* C6 as claimed: when the head being emitted ties with the current head of
\* another input, the emitted head is the one of the earlier-listed input.
C6_EarlierFirst ==
    pc \in {"L193", "L220"} =>
        \A j \in TiedWithRoot : Get(h, 0)[2] < Get(h, j)[2]

\* C6 amended: when the head being emitted ties with the current head of
\* another input, the emitted head is the one of the later-listed input
\* (the larger source order index).
C6_LaterFirst ==
    pc \in {"L193", "L220"} =>
        /\ src[Len(src)] = Get(h, 0)[2]
        /\ \A j \in TiedWithRoot : Get(h, 0)[2] > Get(h, j)[2]

C6_Witness ==
    /\ pc = "L220"
    /\ key = "half"
    /\ Cardinality(TiedWithRoot) >= 2
    /\ \E j \in TiedWithRoot : Get(h, j)[3] # Get(h, 0)[3]

\* the number of elements of input i that have been yielded
Emitted(i) == Count(src, i - 1)

\* the inputs with an element pulled and not yet yielded
Buffered == {i \in DOMAIN iterables : pos[i] > Emitted(i)}

\* C14: nothing is pulled before the first element is requested; whenever
\* merge is suspended or finished every input has had at most one element
\* more pulled than yielded, so at most N elements are pulled and not yet
\* yielded, and what a consumer that stops leaves behind is still unpulled.
C14_LazyBounded ==
    /\ (pc = "created" => h = <<>> /\ out = <<>> /\ \A i \in DOMAIN iterables : pos[i] = 0)
    /\ \A i \in DOMAIN iterables :
           /\ pos[i] - Emitted(i) \in {0, 1}
           /\ pos[i] <= Len(iterables[i])
    /\ Cardinality(Buffered) <= Len(iterables)

C14_Witness ==
    /\ pc \in {"L193", "L220"}
    /\ Len(out) >= 1
    /\ Cardinality(Buffered) >= 2
    /\ \E i \in Buffered : pos[i] < Len(iterables[i])

AllEmitted ==
    /\ Len(out) = Len(Flatten(iterables, Len(iterables)))
    /\ \A i \in DOMAIN iterables : Emitted(i) = Len(iterables[i])

\* what is left to do: the elements not yet emitted, and the return
Remaining ==
    Len(Flatten(iterables, Len(iterables))) - Len(out) + (IF pc = "done" THEN 0 ELSE 1)

\* the guard of one of the generator's resumptions holds
Resumable ==
    \/ pc = "created"
    \/ pc \in {"L193", "L202", "L204"} /\ key = "None" /\ h # <<>>
    \/ pc \in {"L220", "L230", "L232"} /\ key # "None" /\ h # <<>>

\* C15: a consumer that keeps pulling reaches the end of the merged
\* sequence: until merge has returned another pull is always possible, every
\* pull brings the end strictly nearer (an element emitted, or the return),
\* and merge returns only when every element of every input has been
\* emitted, as many as the inputs hold in total.
C15_Terminates ==
    /\ [][Remaining' < Remaining]_vars
    /\ [](Remaining >= 0)
    /\ [](pc # "done" => Resumable)
    /\ [](pc = "done" => AllEmitted)

C15_Witness ==
    /\ pc = "done"
    /\ AllEmitted
    /\ Cardinality(NonEmptyInputs) >= 3
    /\ Len(out) >= 4

\* the resumptions the generator has had: one per element emitted, and the
\* one that found nothing left
Resumptions == IF pc = "created" THEN 0 ELSE Len(out) + (IF pc = "done" THEN 1 ELSE 0)

Phase ==
    IF pc \in {"L193", "L220"} THEN "multi"
    ELSE IF pc \in {"L202", "L204", "L230", "L232"} THEN "tail"
    ELSE pc

NotEmpty(seq) == seq # <<>>

\* C16: when every input is empty merge emits nothing and terminates; an
\* empty input contributes no record to the heap, and what merge has emitted
\* is what merge of the non-empty inputs alone, in the same relative order,
\* has emitted after as many resumptions.
C16_EmptyInputs ==
    /\ (NonEmptyInputs = {} /\ pc # "created") => (pc = "done" /\ out = <<>> /\ h = <<>>)
    /\ \A j \in 0 .. Len(h) - 1 : Get(h, j)[2] + 1 \in NonEmptyInputs
    /\ Len(h) <= Cardinality(NonEmptyInputs)
    /\ LET alone == gen_run(SelectSeq(iterables, NotEmpty), key, Resumptions)
       IN  out = alone.out /\ Phase = alone.pc

C16_Witness ==
    /\ pc = "done"
    /\ Len(iterables) = 3
    /\ iterables[2] = <<>>
    /\ Cardinality(NonEmptyInputs) = 2
    /\ Len(out) >= 4
    /\ Interleaved

\* the max-heap invariant for elements of type T: no child is greater than its parent
IsHeapOf(T, lst) ==
    \A k \in 0 .. Len(lst) - 1 :
        /\ (2 * k + 1 < Len(lst) => ~lt(T, Get(lst, k), Get(lst, 2 * k + 1)))
        /\ (2 * k + 2 < Len(lst) => ~lt(T, Get(lst, k), Get(lst, 2 * k + 2)))

\* the element a record holds, and the input it belongs to
ElemOf(rec) == IF key = "None" THEN rec[1] ELSE rec[3]
InputOf(rec) == rec[2] + 1

\* the (key, source index) pair of record a is >= that of record b
PairGE(a, b) == a[1] > b[1] \/ (a[1] = b[1] /\ a[2] >= b[2])

Orders(lst) == {lst[j][2] : j \in DOMAIN lst}

\* every record of lst holds the current head of its input, under that head's key
HoldsHeads(lst, pp) ==
    \A j \in DOMAIN lst :
        /\ InputOf(lst[j]) \in DOMAIN iterables
        /\ pp[InputOf(lst[j])] >= 1
        /\ ElemOf(lst[j]) = iterables[InputOf(lst[j])][pp[InputOf(lst[j])]]
        /\ lst[j][1] = sort_key(ElemOf(lst[j]))

\* C17: at every yield while more than one source is active h is a max-heap
\* of the sources' current heads, the element emitted is the one of h[0], and
\* its (key, source index) pair is >= that of every other current head,
\* sorted inputs or not; when a source is exhausted heappop removes exactly
\* that source's record.
C17_EmitsMaximum ==
    [][/\ pc' \in {"L193", "L220"} =>
            /\ Len(h') > 1
            /\ IsHeapOf("list", h')
            /\ HoldsHeads(h', pos')
            /\ out' = Append(out, ElemOf(Get(h', 0)))
            /\ src' = Append(src, Get(h', 0)[2])
            /\ \A j \in 1 .. Len(h') - 1 : PairGE(Get(h', 0), Get(h', j))
       /\ (pc \in {"L193", "L220"} /\ Len(h') # Len(h)) =>
            /\ pos[InputOf(Get(h, 0))] = Len(iterables[InputOf(Get(h, 0))])
            /\ src[Len(src)] = Get(h, 0)[2]
            /\ Len(h') = Len(h) - 1
            /\ Orders(h') = Orders(h) \ {Get(h, 0)[2]}
            /\ \A j \in DOMAIN h' : \E n \in DOMAIN h : h'[j] = h[n]
      ]_vars

C17_Witness ==
    /\ pc \in {"L193", "L220"}
    /\ ~InputsSorted
    /\ Cardinality(NonEmptyInputs) = 3
    /\ Len(h) = 2
    /\ \E i \in NonEmptyInputs : Emitted(i) = Len(iterables[i]) /\ Emitted(i) >= 2

InTail == pc \in {"L202", "L204", "L230", "L232"}

\* C18: once exactly one record remains merge emits that record's current
\* head and then every remaining element of that one iterator, in the
\* iterator's order, until it is exhausted; the heap list is not touched again.
C18_Tail ==
    [][/\ pc' \in {"L202", "L230"} =>
            /\ Len(h') = 1
            /\ HoldsHeads(h', pos')
            /\ out' = Append(out, ElemOf(Get(h', 0)))
       /\ InTail =>
            /\ Len(h) = 1
            /\ h' = h
            /\ LET i == InputOf(Get(h, 0))
               IN  IF pos[i] < Len(iterables[i])
                   THEN /\ out' = Append(out, iterables[i][pos[i] + 1])
                        /\ src' = Append(src, i - 1)
                        /\ pos' = [pos EXCEPT ![i] = @ + 1]
                        /\ pc' \in {"L204", "L232"}
                   ELSE /\ out' = out
                        /\ pos' = pos
                        /\ pc' = "done"
      ]_vars

C18_Witness ==
    /\ pc = "L232"
    /\ key = "half"
    /\ Cardinality(NonEmptyInputs) >= 2
    /\ Len(h) = 1
    /\ Len(out) >= 4
    /\ src[Len(out) - 2] = src[Len(out)]
    /\ sort_key(out[Len(out) - 1]) < sort_key(out[Len(out)])
    /\ sort_key(out[Len(out)]) # out[Len(out)]

\* the elements among the first n emitted that came from input i, in the order emitted
RECURSIVE FromInput(_, _)
FromInput(i, n) ==
    IF n = 0
    THEN <<>>
    ELSE IF src[n] = i - 1
         THEN Append(FromInput(i, n - 1), out[n])
         ELSE FromInput(i, n - 1)

\* C19: for every input, the elements of the output that came from it are
\* that input's elements in their original order (all of them once merge has
\* returned), equal keys and unsorted inputs included.
C19_SourceOrder ==
    \A i \in DOMAIN iterables :
        /\ FromInput(i, Len(out)) = SubSeq(iterables[i], 1, Emitted(i))
        /\ (pc = "done" => FromInput(i, Len(out)) = iterables[i])

C19_Witness ==
    /\ pc = "done"
    /\ key = "half"
    /\ Interleaved
    /\ \E i \in DOMAIN iterables :
           /\ Len(iterables[i]) >= 3
           /\ ~Descending(iterables[i])
           /\ \E n, m \in DOMAIN iterables[i] :
                  /\ iterables[i][n] # iterables[i][m]
                  /\ sort_key(iterables[i][n]) = sort_key(iterables[i][m])

\* C20: merge with the identity function as key emits, resumption after
\* resumption, the same elements in the same order as merge with no key over
\* the same inputs, has pulled as many elements from each input, and is in
\* the same phase (before the first element, among several records, draining
\* the last record, returned).
C20_IdentityKey ==
    key = "identity" =>
        LET nokey == gen_run(iterables, "None", Resumptions)
        IN  /\ out = nokey.out
            /\ pos = nokey.pos
            /\ Phase = nokey.pc
            /\ Len(h) = Len(nokey.h)

C20_Witness ==
    /\ key = "identity"
    /\ pc = "L220"
    /\ Cardinality(NonEmptyInputs) = 3
    /\ ~InputsSorted
    /\ Len(out) >= 2
    /\ \E i, j \in DOMAIN h : i # j /\ h[i][1] = h[j][1]

====
